---- MODULE Spec2Model ----
(***************************************************************************)
(* A model of the Weather dashboard script (weather_streamlit.py).         *)
(*                                                                         *)
(* The script's pure helpers are modelled as operators computed the way    *)
(* the Python computes them, and each helper is exercised by an action     *)
(* that draws its arguments from a bounded set and records the call.       *)
(*                                                                         *)
(* Conventions                                                             *)
(*   - Emoji glyphs are written as their code points ("U+2600 U+FE0F").    *)
(*   - Values that Python rounds to two decimals are kept as integer       *)
(*     hundredths, values rounded to one decimal as integer tenths.        *)
(*   - Bearings are kept as integer quarter-degrees, so that every sector  *)
(*     boundary of the compass (odd multiples of 11.25) is representable.  *)
(***************************************************************************)
EXTENDS Integers, Sequences, FiniteSets, TLC

VARIABLES
    animIn,       \* the arguments <<code, is_day>> of the pending call of
                  \* get_weather_animation_html, or <<>>
    animLog,      \* the calls of get_weather_animation_html made so far, in order
    globalRng,    \* the process-wide generator of the random module
    windIn,       \* <<q>>, q the bearing in quarter-degrees of the pending call
                  \* of wind_dir_label, or <<>>
    windLog,      \* the calls of wind_dir_label made so far, in order
    condIn,       \* <<code>>, the code of the pending condition lookup, or <<>>
    condLog,      \* the condition lookups made so far, in order
    labelIn,      \* <<loc>>, the record of the pending call of location_label,
                  \* or <<>>
    labelLog,     \* the calls of location_label made so far, in order
    location,     \* st.session_state.location
    tempUnit,     \* st.session_state.temp_unit
    geoCache,     \* the entries of geocode's st.cache_data: query -> results
    searchIn,     \* <<query>>, the text of the pending call of search_cities,
                  \* or <<>>
    searchLast,   \* <<call>>, the most recent call of search_cities, or <<>>
    searchTick,   \* flips at every call of search_cities
    pc,           \* where the render pass (one run of the script) stands
    cause,        \* the user actions the pass responds to
    pending,      \* the user action behind the st.rerun() that ended the last pass
    fetchCache,   \* the entries of fetch_weather's st.cache_data:
                  \* <<loc, unit>> -> [data, fresh]
    passFetch,    \* <<call>>, the pass's call of fetch_weather, or <<>>
    prevFetch,    \* how the most recent call of fetch_weather ended: "ok",
                  \* "failed", or "none" before the first call
    passData,     \* <<data>>, the script's variable data, or <<>> while unbound
    unitSymbol,   \* the script's variable unit_symbol, "" while unbound
    shown         \* the elements the pass has rendered, in order

animVars == <<animIn, animLog, globalRng>>

windVars == <<windIn, windLog>>

condVars == <<condIn, condLog>>

labelVars == <<labelIn, labelLog>>

sessionVars == <<location, tempUnit, geoCache, searchIn, searchLast, searchTick>>

renderVars == <<pc, cause, pending, fetchCache, passFetch, prevFetch, passData,
                unitSymbol, shown>>

vars == <<animIn, animLog, globalRng, windIn, windLog, condIn, condLog,
          labelIn, labelLog, location, tempUnit, geoCache, searchIn,
          searchLast, searchTick, pc, cause, pending, fetchCache, passFetch,
          prevFetch, passData, unitSymbol, shown>>

-----------------------------------------------------------------------------
(* Bounds of the model.                                                    *)

\* weather codes range over -CodesBelowZero .. MaxCode
CodesBelowZero == 3
MaxCode == 102

Codes == (0 - CodesBelowZero)..MaxCode

\* a run of several calls of get_weather_animation_html makes at most
\* MaxAnimCalls calls, with codes among SeveralCodes
MaxAnimCalls == 3

SeveralCodes == {0, 61, 82, 95}

\* bearings range over BearingTurns full turns below 0 and BearingTurns full
\* turns above 360 degrees
BearingTurns == 2

\* search queries are strings of at most MaxQueryLen characters
MaxQueryLen == 3

\* geocode's cache holds at most MaxCached entries when a search begins
MaxCached == 1

\* the states the process-wide generator may be in when the script starts
GlobalSeeds == {1, 40503}

-----------------------------------------------------------------------------
(* random.Random: a deterministic stream, a function of its seed alone.    *)
(* The Mersenne Twister is abstracted by a 16-bit linear congruential      *)
(* generator. A generator is a record: s its state, n the number of draws  *)
(* made from it, shared whether it is the process-wide generator of the    *)
(* random module (TRUE) or an instance of random.Random (FALSE).           *)

Abs(n) == IF n < 0 THEN 0 - n ELSE n

\* random.Random(seed): a new instance; an int seed is used by absolute value
SeedRng(seed) == [s |-> Abs(seed) % 65536, n |-> 0, shared |-> FALSE]

\* the process-wide generator in state s
SharedRng(s) == [s |-> s, n |-> 0, shared |-> TRUE]

\* one step of the stream
StepRng(rng) == [rng EXCEPT !.s = (@ * 25173 + 13849) % 65536, !.n = @ + 1]

\* the value in lo..hi that the stepped generator stands for: [value, rng]
RandFrom(rng, lo, hi) ==
    [value |-> lo + ((rng.s \div 16) % (hi - lo + 1)), rng |-> rng]

\* rng.randint(lo, hi), and round(rng.uniform(a, b), 2) with lo = 100*a and
\* hi = 100*b (round(..., 1): tenths): one draw from the stream
RandInt(rng, lo, hi) == RandFrom(StepRng(rng), lo, hi)

-----------------------------------------------------------------------------
(* get_weather_animation_html                                              *)

\* the seed of the call's own generator
AnimSeed(code, is_day) == code * 31 + (IF is_day THEN 0 ELSE 1000)

\* the generator the call draws from: its own, freshly seeded; the
\* process-wide generator g is not consulted
AnimRngShared(code, is_day, g) == g

AnimRng(code, is_day, g) == SeedRng(AnimSeed(code, is_day))

\* the if/elif chain choosing the animation family
ClassifyFamilyNoShowers(code, is_day) ==
    IF code \in {95, 96, 99} THEN "thunder"
    ELSE IF code \in {71, 73, 75, 77, 85, 86} THEN "snow"
    ELSE IF code \in {51, 53, 55, 61, 63, 65} THEN "rain"
    ELSE IF code \in {45, 48} THEN "fog"
    ELSE IF code = 3 THEN "overcast"
    ELSE IF code \in {1, 2} THEN "partly_cloudy"
    ELSE IF is_day THEN "clear_day" ELSE "clear_night"

ClassifyFamily(code, is_day) ==
    IF code \in {95, 96, 99} THEN "thunder"
    ELSE IF code \in {71, 73, 75, 77, 85, 86} THEN "snow"
    ELSE IF code \in {51, 53, 55, 61, 63, 65, 80, 81, 82} THEN "rain"
    ELSE IF code \in {45, 48} THEN "fog"
    ELSE IF code = 3 THEN "overcast"
    ELSE IF code \in {1, 2} THEN "partly_cloudy"
    ELSE IF is_day THEN "clear_day" ELSE "clear_night"

\* count = 55 if code in (65, 82) else 30
RainCountHeavyOnly65(code) == IF code \in {65} THEN 55 ELSE 30

RainCount(code) == IF code \in {65, 82} THEN 55 ELSE 30

\* count = 3 if anim == "partly_cloudy" else 6
CloudCount(anim) == IF anim = "partly_cloudy" THEN 3 ELSE 6

\* op = 0.10 if anim == "partly_cloudy" else 0.18 (hundredths)
CloudOpacity(anim) == IF anim = "partly_cloudy" THEN 10 ELSE 18

SnowGlyphs == <<"U+2744", "U+2745", "U+2746", "U+00B7", "U+2022">>

\* the draws of one pass of each family's loop body, in the order the body
\* makes them: the attribute drawn and its range (of: the sequence
\* rng.choice picks from, <<>> for a number)
Draw(name, lo, hi) == [name |-> name, lo |-> lo, hi |-> hi, of |-> <<>>]

Choice(name, seq) == [name |-> name, lo |-> 1, hi |-> Len(seq), of |-> seq]

RainDraws ==
    << Draw("left", 0, 100), Draw("h", 12, 28), Draw("d", 0, 300),
       Draw("dur", 55, 130), Draw("op", 35, 65) >>

SnowDraws ==
    << Draw("left", 0, 100), Draw("size", 7, 17), Draw("d", 0, 1200),
       Draw("dur", 700, 1600), Draw("op", 45, 80), Choice("ch", SnowGlyphs) >>

\* the star's left drawn before its top
StarDrawsLeftFirst ==
    << Draw("left", 0, 100), Draw("top", 2, 65), Draw("size", 18, 45),
       Draw("d", 0, 600), Draw("dur", 200, 500) >>

StarDraws ==
    << Draw("top", 2, 65), Draw("left", 0, 100), Draw("size", 18, 45),
       Draw("d", 0, 600), Draw("dur", 200, 500) >>

CloudDraws ==
    << Draw("top", 3, 40), Draw("w", 120, 220), Draw("d", 0, 20),
       Draw("dur", 30, 60) >>

FogDraws ==
    << Draw("top", 5, 85), Draw("h", 50, 120), Draw("d", 0, 25),
       Draw("dur", 18, 35), Draw("op", 5, 12) >>

FamilyDraws(anim) ==
    CASE anim \in {"rain", "thunder"} -> RainDraws
      [] anim = "snow" -> SnowDraws
      [] anim = "clear_night" -> StarDraws
      [] anim \in {"partly_cloudy", "overcast"} -> CloudDraws
      [] anim = "fog" -> FogDraws
      [] OTHER -> <<>>

\* the attributes a pass starts from: the element's kind and what the loop
\* body does not draw
ElementBase(anim) ==
    CASE anim \in {"rain", "thunder"} -> [kind |-> "rain"]
      [] anim = "snow" -> [kind |-> "snow"]
      [] anim = "clear_night" -> [kind |-> "star"]
      [] anim \in {"partly_cloudy", "overcast"} ->
             [kind |-> "cloud", op |-> CloudOpacity(anim)]
      [] anim = "fog" -> [kind |-> "fog"]
      [] OTHER -> [kind |-> "none"]

\* one pass of the loop body from generator state s: [el, rng]
RECURSIVE Element(_, _, _, _)
ElementDrawn(draws, i, r, el) ==
    Element(draws, i + 1, r.rng,
            el @@ (draws[i].name :>
                      IF draws[i].of = <<>> THEN r.value ELSE draws[i].of[r.value]))

Element(draws, i, s, el) ==
    IF i > Len(draws) THEN [el |-> el, rng |-> s]
    ELSE ElementDrawn(draws, i, RandInt(s, draws[i].lo, draws[i].hi), el)

\* for _ in range(n): parts.append(...), from generator s: [parts, rng].
\* The passes run in order, each from the generator the pass before it left;
\* the range is halved only to keep the evaluation shallow.
RECURSIVE Loop(_, _, _)
LoopJoin(first, second) ==
    [parts |-> first.parts \o second.parts, rng |-> second.rng]

LoopThen(anim, n, first) ==
    LoopJoin(first, Loop(anim, n - (n \div 2), first.rng))

LoopOne(e) == [parts |-> <<e.el>>, rng |-> e.rng]

Loop(anim, n, s) ==
    IF n = 0 THEN [parts |-> <<>>, rng |-> s]
    ELSE IF n = 1 THEN LoopOne(Element(FamilyDraws(anim), 1, s, ElementBase(anim)))
    ELSE LoopThen(anim, n, Loop(anim, n \div 2, s))

FlashOverlay == [kind |-> "flash"]

SunElements == <<[kind |-> "sun_glow"], [kind |-> "ray_cw"], [kind |-> "ray_ccw"]>>

\* the number of passes of the family's loop
LoopCount(anim, code) ==
    CASE anim \in {"rain", "thunder"} -> RainCount(code)
      [] anim = "snow" -> 38
      [] anim = "clear_day" -> 0
      [] anim = "clear_night" -> 60
      [] anim \in {"partly_cloudy", "overcast"} -> CloudCount(anim)
      [] anim = "fog" -> 6

\* parts after the family's loop: the flash overlay follows the drops of a
\* thunderstorm, the three sun elements are appended without any draw
FamilyParts(anim, parts) ==
    CASE anim = "thunder" -> Append(parts, FlashOverlay)
      [] anim = "clear_day" -> parts \o SunElements
      [] OTHER -> parts

\* what the call returns and leaves behind, given its family and its loop's
\* result: the record of the call (with the number of draws it made from its
\* generator), and the process-wide generator, which the call leaves as it
\* found it unless that is the generator it drew from
\* (the fixed keyframes and wrapper strings around the parts are left out)
AnimationResult(code, is_day, anim, loop, s, g) ==
    [call |-> [code |-> code, is_day |-> is_day, anim |-> anim,
               parts |-> FamilyParts(anim, loop.parts),
               draws |-> loop.rng.n - s.n],
     global |-> IF s.shared THEN loop.rng ELSE g]

AnimationOf(code, is_day, anim, s, g) ==
    AnimationResult(code, is_day, anim,
                    Loop(anim, LoopCount(anim, code), s), s, g)

\* get_weather_animation_html(code, is_day) with the process-wide generator
\* in state g
GetWeatherAnimationHtml(code, is_day, g) ==
    AnimationOf(code, is_day, ClassifyFamily(code, is_day),
                AnimRng(code, is_day, g), g)

-----------------------------------------------------------------------------
(* wind_dir_label                                                          *)

WIND_DIRS ==
    << "N", "NNE", "NE", "ENE", "E", "ESE", "SE", "SSE",
       "S", "SSW", "SW", "WSW", "W", "WNW", "NW", "NNW" >>

\* the divisor 22.5 in quarter-degrees, and a full turn: 16 times as much
SectorWidth == 90

FullTurn == Len(WIND_DIRS) * SectorWidth

Bearings == (0 - BearingTurns * FullTurn)..((BearingTurns + 1) * FullTurn - 1)

\* int(num / den) for den > 0: the quotient cut towards zero
TruncQuotient(num, den) == IF num >= 0 THEN num \div den ELSE 0 - ((0 - num) \div den)

\* the quotient rounded to the nearest integer, ties away from zero
RoundHalfAway(num, den) ==
    IF num >= 0 THEN (2 * num + den) \div (2 * den)
    ELSE 0 - ((2 * (0 - num) + den) \div (2 * den))

\* Python's round(num / den) for den > 0: the nearest integer, ties to the
\* even one. (num / den is exact in floating point for the bearings of the
\* model, quarter-degrees divided by 22.5.)
PyRound(num, den) ==
    IF 2 * (num % den) < den THEN num \div den
    ELSE IF 2 * (num % den) > den THEN (num \div den) + 1
    ELSE IF (num \div den) % 2 = 0 THEN num \div den
    ELSE (num \div den) + 1

\* the remainder with the sign of a, as C's % gives it
TruncRemainder(a, n) == IF a >= 0 THEN a % n ELSE 0 - ((0 - a) % n)

\* Python's a % n for n > 0: the remainder in 0..n-1
PyMod(a, n) == a % n

\* Python's seq[i]: i counts from 0, a negative i from the end
PyIndex(seq, i) ==
    IF 0 <= i /\ i < Len(seq) THEN seq[i + 1]
    ELSE IF 0 - Len(seq) <= i /\ i < 0 THEN seq[Len(seq) + i + 1]
    ELSE "IndexError"

\* round(degrees / 22.5) % 16, for degrees = q / 4
WindIndex(q) == PyMod(PyRound(q, SectorWidth), 16)

\* wind_dir_label(degrees), for degrees = q / 4
WindDirLabel(q) == PyIndex(WIND_DIRS, WindIndex(q))

\* a call of wind_dir_label with the pending bearing
WindCall ==
    /\ windIn # <<>>
    /\ windLog' = Append(windLog, [q |-> windIn[1], index |-> WindIndex(windIn[1]),
                                   label |-> WindDirLabel(windIn[1])])
    /\ windIn' = <<>>
    /\ UNCHANGED <<animVars, condVars, labelVars, sessionVars, renderVars>>

\* the caller comes back, once, with the same direction a full turn further
WindTurn ==
    /\ windIn = <<>>
    /\ Len(windLog) = 1
    /\ windLog[1].q + FullTurn \in Bearings
    /\ windIn' = <<windLog[1].q + FullTurn>>
    /\ UNCHANGED <<windLog, animVars, condVars, labelVars, sessionVars, renderVars>>

-----------------------------------------------------------------------------
(* WMO_CODES and the lookup of the current condition                       *)

WMO_CODES ==
    (0 :> <<"Clear sky", "U+2600 U+FE0F">>) @@
    (1 :> <<"Mainly clear", "U+1F324 U+FE0F">>) @@
    (2 :> <<"Partly cloudy", "U+26C5">>) @@
    (3 :> <<"Overcast", "U+2601 U+FE0F">>) @@
    (45 :> <<"Foggy", "U+1F32B U+FE0F">>) @@
    (48 :> <<"Rime fog", "U+1F32B U+FE0F">>) @@
    (51 :> <<"Light drizzle", "U+1F326 U+FE0F">>) @@
    (53 :> <<"Moderate drizzle", "U+1F326 U+FE0F">>) @@
    (55 :> <<"Dense drizzle", "U+1F327 U+FE0F">>) @@
    (61 :> <<"Slight rain", "U+1F327 U+FE0F">>) @@
    (63 :> <<"Moderate rain", "U+1F327 U+FE0F">>) @@
    (65 :> <<"Heavy rain", "U+1F327 U+FE0F">>) @@
    (71 :> <<"Slight snowfall", "U+2744 U+FE0F">>) @@
    (73 :> <<"Moderate snowfall", "U+2744 U+FE0F">>) @@
    (75 :> <<"Heavy snowfall", "U+2744 U+FE0F">>) @@
    (77 :> <<"Snow grains", "U+1F328 U+FE0F">>) @@
    (80 :> <<"Slight showers", "U+1F326 U+FE0F">>) @@
    (81 :> <<"Moderate showers", "U+1F326 U+FE0F">>) @@
    (82 :> <<"Violent showers", "U+26C8 U+FE0F">>) @@
    (85 :> <<"Slight snow showers", "U+1F328 U+FE0F">>) @@
    (86 :> <<"Heavy snow showers", "U+1F328 U+FE0F">>) @@
    (95 :> <<"Thunderstorm", "U+26C8 U+FE0F">>) @@
    (96 :> <<"Thunderstorm + hail", "U+26C8 U+FE0F">>) @@
    (99 :> <<"Thunderstorm + hail", "U+26C8 U+FE0F">>)

\* table.get(key, default) guarded by the key's truth value: key 0 is
\* taken for a missing key
DictGetTruthyKey(table, key, default) ==
    IF key # 0 /\ key \in DOMAIN table THEN table[key] ELSE default

\* table.get(key, default)
DictGet(table, key, default) == IF key \in DOMAIN table THEN table[key] ELSE default

\* the lookup of the forecast cards, WMO_CODES.get(fc_code, ("?", "U+2753"))
ForecastCondition(code) == DictGet(WMO_CODES, code, <<"?", "U+2753">>)

\* WMO_CODES[code]: a code that is no key raises KeyError
CurrentConditionSubscript(code) == DictGet(WMO_CODES, code, <<"KeyError">>)

\* condition, icon = WMO_CODES.get(code, ("Unknown", "U+2753"))
CurrentCondition(code) == DictGet(WMO_CODES, code, <<"Unknown", "U+2753">>)

\* the lookup of the current condition for the pending code
ConditionLookup ==
    /\ condIn # <<>>
    /\ condLog' = Append(condLog, [code |-> condIn[1],
                                   result |-> CurrentCondition(condIn[1])])
    /\ condIn' = <<>>
    /\ UNCHANGED <<animVars, windVars, labelVars, sessionVars, renderVars>>

\* the caller comes back with the next code, until every code was looked up
NextCode ==
    /\ condIn = <<>>
    /\ condLog # <<>>
    /\ condLog[Len(condLog)].code < MaxCode
    /\ condIn' = <<condLog[Len(condLog)].code + 1>>
    /\ UNCHANGED <<condLog, animVars, windVars, labelVars, sessionVars, renderVars>>

-----------------------------------------------------------------------------
(* location_label                                                          *)

\* a place record: a function from some of its keys to strings
LocOf(name, admin1, country) ==
    [k \in {"name" : i \in 1..Len(name)} \cup {"admin1" : i \in 1..Len(admin1)}
           \cup {"country" : i \in 1..Len(country)} |->
        CASE k = "name" -> name[1] [] k = "admin1" -> admin1[1] [] k = "country" -> country[1]]

\* the values of a key in the place records of the model: <<>> when the
\* record lacks the key, <<v>> when it holds the string v
NameValues == {<<>>, <<"Paris">>, <<"Bothell">>, <<"Springfield">>, <<"Nice">>}
Admin1Values == {<<>>, <<"">>, <<"Ile-de-France">>, <<"Washington">>}
CountryValues == {<<>>, <<"France">>, <<"United States">>}

Locs == {LocOf(n, a, c) : n \in NameValues, a \in Admin1Values, c \in CountryValues}

\* sep.join(parts)
RECURSIVE Join(_, _)
Join(parts, sep) ==
    IF parts = <<>> THEN ""
    ELSE IF Len(parts) = 1 THEN parts[1]
    ELSE parts[1] \o sep \o Join(Tail(parts), sep)

\* if loc.get("admin1"): the key is present and its string is not empty
HasAdmin1Key(loc) == "admin1" \in DOMAIN loc

HasAdmin1(loc) == "admin1" \in DOMAIN loc /\ loc["admin1"] # ""

\* location_label(loc): [raised, value]; loc["name"] and loc["country"]
\* raise KeyError when the record lacks the key
LocationLabel(loc) ==
    IF "name" \notin DOMAIN loc \/ "country" \notin DOMAIN loc
    THEN [raised |-> "KeyError", value |-> ""]
    ELSE [raised |-> "",
          value |-> Join(<<loc["name"]>>
                         \o (IF HasAdmin1(loc) THEN <<loc["admin1"]>> ELSE <<>>)
                         \o <<loc["country"]>>, ", ")]

\* a call of location_label with the pending record
LabelCall ==
    /\ labelIn # <<>>
    /\ labelLog' = Append(labelLog, [loc |-> labelIn[1],
                                     result |-> LocationLabel(labelIn[1])])
    /\ labelIn' = <<>>
    /\ UNCHANGED <<animVars, windVars, condVars, sessionVars, renderVars>>

-----------------------------------------------------------------------------
(* geocode and search_cities                                               *)

\* (the coordinates and the time zone of a place record are left out)
DEFAULT_LOCATION ==
    [name |-> "Bothell", admin1 |-> "Washington", country |-> "United States"]

\* a string is the sequence of its characters
QueryChars == {"a", " "}
Whitespace == {" "}

Queries == UNION {[1..n -> QueryChars] : n \in 0..MaxQueryLen}

\* the texts typed in a session
TypedQueries == {<<>>, <<"a">>, <<" ", "a", "a">>, <<"a", " ", "a">>}

\* str.lstrip(), str.rstrip() and str.strip()
RECURSIVE LStrip(_)
LStrip(str) ==
    IF str # <<>> /\ str[1] \in Whitespace THEN LStrip(Tail(str)) ELSE str

RECURSIVE RStrip(_)
RStrip(str) ==
    IF str # <<>> /\ str[Len(str)] \in Whitespace
    THEN RStrip(SubSeq(str, 1, Len(str) - 1)) ELSE str

Strip(str) == RStrip(LStrip(str))

\* what the geocoding API answers to a request: a list of place records, or
\* a failure of the request (requests.get, raise_for_status or r.json raise)
ParisRecord == [name |-> "Paris", admin1 |-> "Ile-de-France", country |-> "France"]
NoCountryRecord == [name |-> "Paris"]

ResultLists == {<<>>, <<ParisRecord>>, <<ParisRecord, NoCountryRecord>>}

Answers ==
    {[raised |-> "", results |-> rs] : rs \in ResultLists}
    \cup {[raised |-> e, results |-> <<>>] :
             e \in {"ConnectionError", "Timeout", "HTTPError", "JSONDecodeError"}}

\* geocode(query) under st.cache_data, the API answering answer if asked:
\* a cached query is answered from the cache, any other is requested and its
\* results are cached unless the request raises
Geocode(query, cache, answer) ==
    IF query \in DOMAIN cache
    THEN [raised |-> "", results |-> cache[query], requests |-> <<>>, cache |-> cache]
    ELSE [raised |-> answer.raised, results |-> answer.results,
          requests |-> <<query>>,
          cache |-> IF answer.raised = "" THEN cache @@ (query :> answer.results)
                    ELSE cache]

\* if not query or len(query.strip()) < 2
TooShortUnstripped(query) == query = <<>> \/ Len(query) < 2

TooShort(query) == query = <<>> \/ Len(Strip(query)) < 2

\* [(location_label(loc), loc) for loc in results]: [raised, result]
FirstRaised(labels) ==
    IF \E i \in 1..Len(labels) : labels[i].raised # ""
    THEN labels[CHOOSE i \in 1..Len(labels) :
                    /\ labels[i].raised # ""
                    /\ \A j \in 1..(i - 1) : labels[j].raised = ""].raised
    ELSE ""

LabelledFrom(results, labels) ==
    IF FirstRaised(labels) # ""
    THEN [raised |-> FirstRaised(labels), result |-> <<>>]
    ELSE [raised |-> "",
          result |-> [i \in 1..Len(results) |-> <<labels[i].value, results[i]>>]]

Labelled(results) ==
    LabelledFrom(results, [i \in 1..Len(results) |-> LocationLabel(results[i])])

\* the body of the try: [raised, result, lookups, requests, cache, failed]
TryFormat(g, f) ==
    [raised |-> IF g.raised # "" THEN g.raised ELSE f.raised,
     result |-> IF g.raised # "" THEN <<>> ELSE f.result,
     requests |-> g.requests,
     cache |-> g.cache,
     failed |-> IF g.raised # "" THEN g.raised ELSE f.raised]

TryGeocode(g) == TryFormat(g, IF g.raised # "" THEN g ELSE Labelled(g.results))

\* except: only the exceptions of the requests library are caught
ExceptRequestException(try) ==
    IF try.raised \in {"ConnectionError", "Timeout", "HTTPError", "JSONDecodeError"}
    THEN [try EXCEPT !.raised = "", !.result = <<>>]
    ELSE try

\* except Exception: return []
ExceptException(try) ==
    IF try.raised # "" THEN [try EXCEPT !.raised = "", !.result = <<>>] ELSE try

\* search_cities(query), the API answering answer if asked: what it returns
\* or raises, the queries it looked up with geocode, the requests sent, the
\* cache afterwards, and the failure met on the way ("" if none)
SearchCities(query, cache, answer) ==
    IF TooShort(query)
    THEN [query |-> query, raised |-> "", result |-> <<>>, lookups |-> <<>>,
          requests |-> <<>>, cache |-> cache, failed |-> ""]
    ELSE [query |-> query, lookups |-> <<Strip(query)>>]
         @@ ExceptException(TryGeocode(Geocode(Strip(query), cache, answer)))

helperVars == <<animVars, windVars, condVars, labelVars>>

\* the call of search_cities with the pending text, made by the search box
Search ==
    /\ pc = "searchbox"
    /\ searchIn # <<>>
    /\ \E answer \in Answers :
           \E r \in {SearchCities(searchIn[1], geoCache, answer)} :
               /\ searchLast' = <<[query |-> r.query, raised |-> r.raised,
                                   result |-> r.result, lookups |-> r.lookups,
                                   requests |-> r.requests, failed |-> r.failed]>>
               /\ geoCache' = r.cache
    /\ searchIn' = <<>>
    /\ searchTick' = 1 - searchTick
    /\ UNCHANGED <<location, tempUnit, helperVars, renderVars>>

\* a keystroke in the search box of a rendered page: search_cities is to be
\* called with the text in the pass the keystroke starts
Type ==
    /\ pc \in {"stopped", "done"}
    /\ searchIn = <<>>
    /\ Cardinality(DOMAIN geoCache) <= MaxCached
    /\ searchIn' \in {<<q>> : q \in TypedQueries}
    /\ UNCHANGED <<location, tempUnit, geoCache, searchLast, searchTick, helperVars,
                   renderVars>>

\* an entry of geocode's cache reaches its ttl
GeoExpire ==
    /\ \E query \in DOMAIN geoCache :
           geoCache' = [k \in DOMAIN geoCache \ {query} |-> geoCache[k]]
    /\ UNCHANGED <<location, tempUnit, searchIn, searchLast, searchTick, helperVars,
                   renderVars>>

-----------------------------------------------------------------------------
(* fetch_weather and the render pass: one run of the script from its top   *)

\* the arguments of the call of fetch_weather: the selected place (its record
\* stands for its latitude, longitude and time zone) and the session's unit
FetchArgsDefaultUnit(loc, unit) == <<loc, "fahrenheit">>

FetchArgs(loc, unit) == <<loc, unit>>

\* what the forecast API answers to a request: "" for a forecast, or the
\* failure of the request (requests.get, raise_for_status or r.json raise)
FetchAnswers == {"", "ConnectionError", "HTTPError"}

\* the forecast the API returns for the arguments: of that place, its
\* temperatures in the unit asked for
Forecast(key) == [loc |-> key[1], unit |-> key[2]]

\* what the lookup of key finds in the cache
Found(key, cache) ==
    IF key \notin DOMAIN cache THEN "none"
    ELSE IF cache[key].fresh THEN "fresh" ELSE "expired"

\* fetch_weather(*key) with nothing cached: the request is sent whatever
\* the cache holds
FetchWeatherUncached(key, cache, answer) ==
    [raised |-> answer,
     data |-> IF answer = "" THEN <<Forecast(key)>> ELSE <<>>,
     requests |-> <<key>>,
     found |-> Found(key, cache),
     cache |-> cache]

\* fetch_weather(*key) under st.cache_data(ttl=600), the API answering answer
\* if asked: an entry younger than the ttl is returned without a request;
\* otherwise the request is sent, once, and its forecast is cached unless the
\* request raises
FetchWeather(key, cache, answer) ==
    IF Found(key, cache) = "fresh"
    THEN [raised |-> "", data |-> <<cache[key].data>>, requests |-> <<>>,
          found |-> "fresh", cache |-> cache]
    ELSE [raised |-> answer,
          data |-> IF answer = "" THEN <<Forecast(key)>> ELSE <<>>,
          requests |-> <<key>>,
          found |-> Found(key, cache),
          cache |-> IF answer = ""
                    THEN [k \in DOMAIN cache \cup {key} |->
                             IF k = key THEN [data |-> Forecast(key), fresh |-> TRUE]
                             ELSE cache[k]]
                    ELSE cache]

\* an element written to the page: its kind, the forecast it shows (<<>> if
\* none) and the unit symbol printed after its temperatures ("" if none)
Rendered(kind, data, symbol) == [kind |-> kind, data |-> data, symbol |-> symbol]

\* unit_symbol = "F" if st.session_state.temp_unit == "fahrenheit" else "C"
UnitSymbol(unit) == IF unit = "fahrenheit" THEN "F" ELSE "C"

\* new_unit = "fahrenheit" if chosen == "°F" else "celsius"
NewUnit(chosen) == IF chosen = "F" THEN "fahrenheit" ELSE "celsius"

\* where the pass goes after the call of fetch_weather: st.stop() ends it if
\* the call raised
AfterFetchNoStop(raised) == "animation"

AfterFetch(raised) == IF raised # "" THEN "stopped" ELSE "animation"

\* the script is run from its top: when the page is loaded or loaded again,
\* when a widget of the page was used (a keystroke in the search box, a
\* click), and after st.rerun()
Rerun ==
    /\ pc \in {"new", "stopped", "rerun", "done"}
    /\ pc' = "searchbox"
    /\ cause' = pending
    /\ pending' = {}
    /\ passFetch' = <<>>
    /\ passData' = <<>>
    /\ unitSymbol' = ""
    /\ shown' = <<>>
    /\ UNCHANGED <<fetchCache, prevFetch, sessionVars, helperVars>>

\* the search box returns an entry of the dropdown: the script stores the
\* selected record and clears every st.cache_data cache
SelectCity ==
    /\ pc = "searchbox"
    /\ searchIn = <<>>
    /\ searchLast # <<>>
    /\ \E i \in 1..Len(searchLast[1].result) :
           location' = searchLast[1].result[i][2]
    /\ geoCache' = <<>>
    /\ fetchCache' = <<>>
    /\ cause' = cause \cup {"selection"}
    /\ shown' = Append(shown, Rendered("searchbox", <<>>, ""))
    /\ pc' = "fetch"
    /\ UNCHANGED <<tempUnit, searchIn, searchLast, searchTick, pending, passFetch,
                   prevFetch, passData, unitSymbol, helperVars>>

\* the search box returns nothing
NoSelection ==
    /\ pc = "searchbox"
    /\ searchIn = <<>>
    /\ shown' = Append(shown, Rendered("searchbox", <<>>, ""))
    /\ pc' = "fetch"
    /\ UNCHANGED <<sessionVars, cause, pending, fetchCache, passFetch, prevFetch,
                   passData, unitSymbol, helperVars>>

\* data = fetch_weather(...); on any exception st.error and st.stop()
Fetch ==
    /\ pc = "fetch"
    /\ \E answer \in FetchAnswers :
           \E r \in {FetchWeather(FetchArgs(location, tempUnit), fetchCache, answer)} :
               /\ fetchCache' = r.cache
               /\ passFetch' = <<[key |-> FetchArgs(location, tempUnit),
                                  found |-> r.found, requests |-> r.requests,
                                  failed |-> r.raised, cause |-> cause,
                                  prev |-> prevFetch]>>
               /\ prevFetch' = (IF r.raised = "" THEN "ok" ELSE "failed")
               /\ passData' = r.data
               /\ shown' = (IF r.raised = "" THEN shown
                            ELSE Append(shown, Rendered("error", <<>>, "")))
               /\ pc' = AfterFetch(r.raised)
    /\ UNCHANGED <<sessionVars, cause, pending, unitSymbol, helperVars>>

\* st.markdown(get_weather_animation_html(...)): data must be bound
Animation ==
    /\ pc = "animation"
    /\ passData # <<>>
    /\ shown' = Append(shown, Rendered("animation", passData, ""))
    /\ pc' = "header"
    /\ UNCHANGED <<sessionVars, cause, pending, fetchCache, passFetch, prevFetch,
                   passData, unitSymbol, helperVars>>

\* unit_symbol is set and the title is written
Header ==
    /\ pc = "header"
    /\ unitSymbol' = UnitSymbol(tempUnit)
    /\ shown' = Append(shown, Rendered("title", passData, ""))
    /\ pc' = "unit"
    /\ UNCHANGED <<sessionVars, cause, pending, fetchCache, passFetch, prevFetch,
                   passData, helperVars>>

\* the unit radio: if it returns the other unit, that unit is stored, the
\* caches are cleared and st.rerun() ends the pass
ToggleUnit ==
    /\ pc = "unit"
    /\ shown' = Append(shown, Rendered("unit_toggle", <<>>, ""))
    /\ \E chosen \in {"F", "C"} :
           IF NewUnit(chosen) # tempUnit
           THEN /\ tempUnit' = NewUnit(chosen)
                /\ geoCache' = <<>>
                /\ fetchCache' = <<>>
                /\ pending' = {"unit"}
                /\ pc' = "rerun"
           ELSE /\ pc' = "refresh"
                /\ UNCHANGED <<tempUnit, geoCache, fetchCache, pending>>
    /\ UNCHANGED <<location, searchIn, searchLast, searchTick, cause, passFetch,
                   prevFetch, passData, unitSymbol, helperVars>>

\* the refresh button: if it was pressed, the caches are cleared and
\* st.rerun() ends the pass
Refresh ==
    /\ pc = "refresh"
    /\ shown' = Append(shown, Rendered("refresh_button", <<>>, ""))
    /\ \E pressed \in BOOLEAN :
           IF pressed
           THEN /\ geoCache' = <<>>
                /\ fetchCache' = <<>>
                /\ pending' = {"refresh"}
                /\ pc' = "rerun"
           ELSE /\ pc' = "conditions"
                /\ UNCHANGED <<geoCache, fetchCache, pending>>
    /\ UNCHANGED <<location, tempUnit, searchIn, searchLast, searchTick, cause,
                   passFetch, prevFetch, passData, unitSymbol, helperVars>>

\* the current conditions: the icon, the label, the felt and the measured
\* temperature, each temperature followed by unit_symbol
Conditions ==
    /\ pc = "conditions"
    /\ shown' = Append(shown, Rendered("conditions", passData, unitSymbol))
    /\ pc' = "stats"
    /\ UNCHANGED <<sessionVars, cause, pending, fetchCache, passFetch, prevFetch,
                   passData, unitSymbol, helperVars>>

\* the four stat cards: humidity, wind, gusts, cloud cover
Stats ==
    /\ pc = "stats"
    /\ shown' = shown \o [i \in 1..4 |-> Rendered("stat_card", passData, "")]
    /\ pc' = "forecast"
    /\ UNCHANGED <<sessionVars, cause, pending, fetchCache, passFetch, prevFetch,
                   passData, unitSymbol, helperVars>>

\* the five forecast cards, the day's high and low followed by unit_symbol
ForecastCards ==
    /\ pc = "forecast"
    /\ shown' = shown \o [i \in 1..5 |-> Rendered("forecast_card", passData, unitSymbol)]
    /\ pc' = "done"
    /\ UNCHANGED <<sessionVars, cause, pending, fetchCache, passFetch, prevFetch,
                   passData, unitSymbol, helperVars>>

\* an entry of fetch_weather's cache reaches its ttl
FetchExpire ==
    /\ \E key \in DOMAIN fetchCache :
           /\ fetchCache[key].fresh
           /\ fetchCache' = [fetchCache EXCEPT ![key].fresh = FALSE]
    /\ UNCHANGED <<sessionVars, pc, cause, pending, passFetch, prevFetch, passData,
                   unitSymbol, shown, helperVars>>

-----------------------------------------------------------------------------
(* The calls of get_weather_animation_html                                 *)

\* a call of get_weather_animation_html with the pending arguments
Animate ==
    /\ animIn # <<>>
    /\ \E r \in {GetWeatherAnimationHtml(animIn[1], animIn[2], globalRng)} :
           /\ animLog' = Append(animLog, r.call)
           /\ globalRng' = r.global
    /\ animIn' = <<>>
    /\ UNCHANGED <<windVars, condVars, labelVars, sessionVars, renderVars>>

\* the caller comes back with the arguments of another call
AnimAgain ==
    /\ animIn = <<>>
    /\ Len(animLog) < MaxAnimCalls
    /\ animIn' \in SeveralCodes \X BOOLEAN
    /\ UNCHANGED <<animLog, globalRng, windVars, condVars, labelVars, sessionVars,
                   renderVars>>

-----------------------------------------------------------------------------
(* Specifications: each helper is called on arguments drawn from its       *)
(* bounded set while the rest of the model stays idle.                     *)

AnimIdle ==
    /\ animIn = <<>>
    /\ animLog = <<>>
    /\ globalRng = SharedRng(1)

WindIdle ==
    /\ windIn = <<>>
    /\ windLog = <<>>

CondIdle ==
    /\ condIn = <<>>
    /\ condLog = <<>>

LabelIdle ==
    /\ labelIn = <<>>
    /\ labelLog = <<>>

\* the session as the script's first run leaves it
SessionIdle ==
    /\ location = DEFAULT_LOCATION
    /\ tempUnit = "fahrenheit"
    /\ geoCache = <<>>
    /\ searchIn = <<>>
    /\ searchLast = <<>>
    /\ searchTick = 0

\* no pass has run yet
RenderIdle ==
    /\ pc = "new"
    /\ cause = {}
    /\ pending = {}
    /\ fetchCache = <<>>
    /\ passFetch = <<>>
    /\ prevFetch = "none"
    /\ passData = <<>>
    /\ unitSymbol = ""
    /\ shown = <<>>

\* the pass stands at the search box
AtSearchbox ==
    /\ pc = "searchbox"
    /\ cause = {}
    /\ pending = {}
    /\ fetchCache = <<>>
    /\ passFetch = <<>>
    /\ prevFetch = "none"
    /\ passData = <<>>
    /\ unitSymbol = ""
    /\ shown = <<>>

\* one call of get_weather_animation_html, of any code
AnimInit ==
    /\ animIn \in Codes \X BOOLEAN
    /\ animLog = <<>>
    /\ globalRng \in {SharedRng(s) : s \in GlobalSeeds}
    /\ WindIdle /\ CondIdle /\ LabelIdle /\ SessionIdle /\ RenderIdle

SpecAnim == AnimInit /\ [][Animate]_vars

\* several calls of get_weather_animation_html
SeveralInit ==
    /\ animIn \in SeveralCodes \X BOOLEAN
    /\ animLog = <<>>
    /\ globalRng \in {SharedRng(s) : s \in GlobalSeeds}
    /\ WindIdle /\ CondIdle /\ LabelIdle /\ SessionIdle /\ RenderIdle

SpecSeveral == SeveralInit /\ [][Animate \/ AnimAgain]_vars

\* a call of wind_dir_label, of any bearing, and the call a full turn further
WindInit ==
    /\ windIn \in {<<q>> : q \in Bearings}
    /\ windLog = <<>>
    /\ AnimIdle /\ CondIdle /\ LabelIdle /\ SessionIdle /\ RenderIdle

SpecWind == WindInit /\ [][WindCall \/ WindTurn]_vars

\* one lookup of the current condition, of any code
CondInit ==
    /\ condIn \in {<<c>> : c \in Codes}
    /\ condLog = <<>>
    /\ AnimIdle /\ WindIdle /\ LabelIdle /\ SessionIdle /\ RenderIdle

SpecCond == CondInit /\ [][ConditionLookup]_vars

\* the lookup of every code in turn, from the lowest
TableInit ==
    /\ condIn = <<0 - CodesBelowZero>>
    /\ condLog = <<>>
    /\ AnimIdle /\ WindIdle /\ LabelIdle /\ SessionIdle /\ RenderIdle

SpecTable == TableInit /\ [][ConditionLookup \/ NextCode]_vars

\* one call of location_label, of any place record
LabelInit ==
    /\ labelIn \in {<<l>> : l \in Locs}
    /\ labelLog = <<>>
    /\ AnimIdle /\ WindIdle /\ CondIdle /\ SessionIdle /\ RenderIdle

SpecLabel == LabelInit /\ [][LabelCall]_vars

\* the caches geocode may hold when a search begins: at most MaxCached
\* trimmed queries, each with the results of an earlier answer
CachedQueries == {k \in {Strip(q) : q \in Queries} : Len(k) >= 2}

Caches ==
    UNION {[ks -> ResultLists] :
              ks \in {ks \in SUBSET CachedQueries : Cardinality(ks) <= MaxCached}}

\* one call of search_cities, of any text, in any session and over any cache
SearchInit ==
    /\ searchIn \in {<<q>> : q \in Queries}
    /\ geoCache \in Caches
    /\ location \in {DEFAULT_LOCATION, ParisRecord}
    /\ tempUnit \in {"fahrenheit", "celsius"}
    /\ searchLast = <<>>
    /\ searchTick = 0
    /\ AtSearchbox
    /\ AnimIdle /\ WindIdle /\ CondIdle /\ LabelIdle

SpecSearch == SearchInit /\ [][Search]_vars

\* the session: the render passes, with the keystrokes that start some of
\* them, and the expiry of cache entries
Init == SessionIdle /\ RenderIdle /\ AnimIdle /\ WindIdle /\ CondIdle /\ LabelIdle

Next ==
    \/ Rerun \/ Type \/ Search \/ SelectCity \/ NoSelection \/ Fetch
    \/ Animation \/ Header \/ ToggleUnit \/ Refresh \/ Conditions \/ Stats
    \/ ForecastCards \/ GeoExpire \/ FetchExpire

Spec == Init /\ [][Next]_vars

-----------------------------------------------------------------------------
(* Properties of get_weather_animation_html                                *)

ThunderCodes == {95, 96, 99}
SnowCodes == {71, 73, 75, 77, 85, 86}
RainCodes == {51, 53, 55, 61, 63, 65, 80, 81, 82}
FogCodes == {45, 48}

\* the family the priority order gives a code, whatever is_day is; "clear"
\* for the codes of no list
FamilyOfCode(code) ==
    CASE code \in ThunderCodes -> "thunder"
      [] code \in SnowCodes -> "snow"
      [] code \in RainCodes -> "rain"
      [] code \in FogCodes -> "fog"
      [] code = 3 -> "overcast"
      [] code \in {1, 2} -> "partly_cloudy"
      [] OTHER -> "clear"

AnimCalls == {animLog[i] : i \in 1..Len(animLog)}

\* C1: every call's family is the one the priority order gives its code; the
\* codes of no list (those absent from the condition table included) get
\* clear_day by day and clear_night by night, and is_day decides nothing else.
C1_FamilyByPriority ==
    \A c \in AnimCalls :
        IF FamilyOfCode(c.code) = "clear"
        THEN c.anim = (IF c.is_day THEN "clear_day" ELSE "clear_night")
        ELSE c.anim = FamilyOfCode(c.code)

C1_Witness ==
    \E c \in AnimCalls : c.code = 82 /\ ~c.is_day /\ c.anim = "rain"

Kinds(parts) == {parts[i].kind : i \in 1..Len(parts)}

Flashes(parts) == {i \in 1..Len(parts) : parts[i].kind = "flash"}

\* the family table's element count
TableCount(anim, code) ==
    CASE anim = "rain" -> (IF code \in {65, 82} THEN 55 ELSE 30)
      [] anim = "thunder" -> (IF code \in {65, 82} THEN 55 ELSE 30) + 1
      [] anim = "snow" -> 38
      [] anim = "clear_day" -> 3
      [] anim = "clear_night" -> 60
      [] anim = "partly_cloudy" -> 3
      [] anim = "overcast" -> 6
      [] anim = "fog" -> 6

\* the kinds of element a family is made of
TableKinds(anim) ==
    CASE anim = "rain" -> {"rain"}
      [] anim = "thunder" -> {"rain", "flash"}
      [] anim = "snow" -> {"snow"}
      [] anim = "clear_day" -> {"sun_glow", "ray_cw", "ray_ccw"}
      [] anim = "clear_night" -> {"star"}
      [] anim \in {"partly_cloudy", "overcast"} -> {"cloud"}
      [] anim = "fog" -> {"fog"}

\* C2: every call yields the family table's number of elements, all of the
\* family's kinds; a thunderstorm ends with its one flash overlay and no
\* other family has a flash.
C2_CountsMatchTable ==
    \A c \in AnimCalls :
        /\ Len(c.parts) = TableCount(c.anim, c.code)
        /\ Kinds(c.parts) = TableKinds(c.anim)
        /\ Flashes(c.parts) = (IF c.anim = "thunder" THEN {Len(c.parts)} ELSE {})

C2_Witness ==
    \E c \in AnimCalls :
        c.code = 82 /\ Len(c.parts) = 55 /\ Kinds(c.parts) = {"rain"}

\* C3: any two calls with the same arguments returned the same parts,
\* whatever was called in between, and no call drew from the process-wide
\* generator.
C3_Reproducible ==
    /\ \A i, j \in 1..Len(animLog) :
           (animLog[i].code = animLog[j].code /\ animLog[i].is_day = animLog[j].is_day)
               => animLog[i].parts = animLog[j].parts
    /\ globalRng.n = 0

C3_Witness ==
    /\ Len(animLog) = 3
    /\ animLog[1].code = 61 /\ animLog[3].code = 61 /\ animLog[2].code = 95
    /\ animLog[1].is_day /\ animLog[3].is_day
    /\ animLog[1].parts = animLog[3].parts
    /\ animLog[2].parts # animLog[1].parts

\* the states of a stream after each of its first n draws, from state s
\* (the range is halved only to keep the evaluation shallow)
RECURSIVE StreamFrom(_, _)
StreamThen(first, m) == first \o StreamFrom(first[Len(first)], m)

StreamFrom(s, n) ==
    IF n = 0 THEN <<>>
    ELSE IF n = 1 THEN <<StepRng(s)>>
    ELSE StreamThen(StreamFrom(s, n \div 2), n - (n \div 2))

\* the attributes a family draws, and each one's range
DrawnNames(anim) == {FamilyDraws(anim)[i].name : i \in 1..Len(FamilyDraws(anim))}

DrawOf(anim, name) ==
    FamilyDraws(anim)[CHOOSE i \in 1..Len(FamilyDraws(anim)) :
                          FamilyDraws(anim)[i].name = name]

\* the value a draw of that range takes when the stream is in state st
ValueDrawn(draw, st) ==
    IF draw.of = <<>> THEN RandFrom(st, draw.lo, draw.hi).value
    ELSE draw.of[RandFrom(st, draw.lo, draw.hi).value]

\* an order of attributes, cut down to those the family draws
InFamily(order, anim) == SelectSeq(order, LAMBDA a : a \in DrawnNames(anim))

\* the elements of a call that are not the flash overlay
Randomized(c) == {i \in 1..Len(c.parts) : c.parts[i].kind # "flash"}

\* the call drew order's attributes, element after element and nothing else,
\* from the stream of its seed: its k-th draw is attribute j of element e for
\* k = (e - 1) * Len(order) + j
FeedsInOrder(c, order, stream) ==
    /\ c.draws = Len(order) * Cardinality(Randomized(c))
    /\ \A e \in Randomized(c) : \A j \in 1..Len(order) :
           /\ order[j] \in DOMAIN c.parts[e]
           /\ c.parts[e][order[j]] =
                  ValueDrawn(DrawOf(c.anim, order[j]),
                             stream[(e - 1) * Len(order) + j])

UsesRandomness(c) == DrawnNames(c.anim) # {}

StreamOf(c) ==
    StreamFrom(SeedRng(c.code * 31 + (IF c.is_day THEN 0 ELSE 1000)), c.draws)

\* left, then size/height (a cloud's width with them), then delay, then
\* duration, then opacity, then glyph
StatedOrder == <<"left", "size", "w", "h", "d", "dur", "op", "ch">>

\* the same with top in front
OrderWithTop == <<"top", "left", "size", "w", "h", "d", "dur", "op", "ch">>

\* C14, as stated: a call of a family that uses randomness draws, element
\* after element, left, size/height, delay, duration, opacity and glyph in
\* that order (those the family has) and nothing else.
C14_StatedOrder ==
    \A c \in AnimCalls :
        UsesRandomness(c) =>
            FeedsInOrder(c, InFamily(StatedOrder, c.anim), StreamOf(c))

\* C14, amended: a call of a family that uses randomness draws, element
\* after element, top, left, size/width/height, delay, duration, opacity and
\* glyph in that order (those the family draws) and nothing else before,
\* between or after; a family that uses none draws nothing.
C14_TopFirstOrder ==
    \A c \in AnimCalls :
        IF UsesRandomness(c)
        THEN FeedsInOrder(c, InFamily(OrderWithTop, c.anim), StreamOf(c))
        ELSE c.draws = 0

\* a clear night: 60 stars of 5 draws each, the first draw of the call being
\* the first star's top and the second its left
C14_Witness ==
    \E c \in AnimCalls :
        /\ c.anim = "clear_night"
        /\ c.draws = 300
        /\ c.parts[1].top = ValueDrawn(Draw("top", 2, 65), StreamOf(c)[1])
        /\ c.parts[1].left = ValueDrawn(Draw("left", 0, 100), StreamOf(c)[2])
        /\ c.parts[1].top # ValueDrawn(Draw("top", 2, 65), StreamOf(c)[2])

-----------------------------------------------------------------------------
(* Properties of wind_dir_label                                            *)

\* the bearing of each compass point, in quarter-degrees
CompassBearing ==
    [ N |-> 0, NNE |-> 90, NE |-> 180, ENE |-> 270, E |-> 360, ESE |-> 450,
      SE |-> 540, SSE |-> 630, S |-> 720, SSW |-> 810, SW |-> 900, WSW |-> 990,
      W |-> 1080, WNW |-> 1170, NW |-> 1260, NNW |-> 1350 ]

\* the angle between two bearings, the short way round
Apart(q1, q2) ==
    IF (q1 - q2) % FullTurn <= FullTurn \div 2 THEN (q1 - q2) % FullTurn
    ELSE FullTurn - ((q1 - q2) % FullTurn)

WindCalls == {windLog[i] : i \in 1..Len(windLog)}

\* C5: for a bearing in [0, 360) the label is a compass point within 11.25
\* degrees of the bearing, the short way round, and it is the point of the
\* table at the computed index; 0, 90, 180 and 270 give N, E, S and W.
C5_NearestCompassPoint ==
    \A c \in WindCalls :
        (0 <= c.q /\ c.q < FullTurn) =>
            /\ c.label \in DOMAIN CompassBearing
            /\ Apart(c.q, CompassBearing[c.label]) <= 45
            /\ CompassBearing[c.label] = SectorWidth * c.index
            /\ (c.q = 0 => c.label = "N")
            /\ (c.q = 360 => c.label = "E")
            /\ (c.q = 720 => c.label = "S")
            /\ (c.q = 1080 => c.label = "W")

\* 348.75 degrees, a sector boundary, is labelled N across the wrap at 360
C5_Witness ==
    \E c \in WindCalls : c.q = 1395 /\ c.label = "N" /\ c.index = 0

\* C6: a bearing and the bearing a full turn further get the same label
C6_Periodic ==
    \A i, j \in 1..Len(windLog) :
        windLog[j].q = windLog[i].q + FullTurn => windLog[j].label = windLog[i].label

\* -11.25 and 348.75 degrees, both sector boundaries, agree
C6_Witness ==
    /\ Len(windLog) = 2
    /\ windLog[1].q = 0 - 45
    /\ windLog[2].q = 1395
    /\ windLog[1].label = windLog[2].label

\* C7: whatever the bearing, the index is in 0..15 and the result is one of
\* the 16 labels
C7_AlwaysALabel ==
    \A c \in WindCalls :
        /\ c.index \in 0..15
        /\ c.label \in DOMAIN CompassBearing

\* -375 degrees, more than a full turn below 0
C7_Witness ==
    \E c \in WindCalls : c.q = 0 - 1500 /\ c.index = 15 /\ c.label = "NNW"
-----------------------------------------------------------------------------
(* Properties of the condition lookup                                      *)

\* the codes the script handles
KnownCodes ==
    {0, 1, 2, 3, 45, 48, 51, 53, 55, 61, 63, 65, 71, 73, 75, 77, 80, 81, 82,
     85, 86, 95, 96, 99}

CondCalls == {condLog[i] : i \in 1..Len(condLog)}

\* C4: the lookup of any code yields a pair (label, icon): the table's pair
\* for a known code, and exactly ("Unknown", question mark) for any other.
C4_LookupTotal ==
    \A c \in CondCalls :
        /\ c.result \in STRING \X STRING
        /\ c.code \in KnownCodes =>
               (c.code \in DOMAIN WMO_CODES /\ c.result = WMO_CODES[c.code])
        /\ c.code \notin KnownCodes => c.result = <<"Unknown", "U+2753">>

C4_Witness ==
    \E c \in CondCalls : c.code = 4 /\ c.result = <<"Unknown", "U+2753">>

\* the codes looked up so far that the table knows: their lookup gave
\* something else than the default
FoundKnown == {c.code : c \in {d \in CondCalls : d.result # <<"Unknown", "U+2753">>}}

AllLookedUp ==
    condIn = <<>> /\ condLog # <<>> /\ condLog[Len(condLog)].code = MaxCode

\* C13, as stated: the lookups never know more than 23 codes, and once every
\* code was looked up, 23 of them were known.
C13_Table23Codes ==
    /\ Cardinality(FoundKnown) <= 23
    /\ AllLookedUp => Cardinality(FoundKnown) = 23

\* C13, amended: the table holds 24 codes, and once every code was looked
\* up, 24 of them were known, the keys of the table.
C13_Table24Codes ==
    /\ Cardinality(DOMAIN WMO_CODES) = 24
    /\ Cardinality(FoundKnown) <= 24
    /\ AllLookedUp => (Cardinality(FoundKnown) = 24 /\ FoundKnown = DOMAIN WMO_CODES)

C13_Witness ==
    /\ AllLookedUp
    /\ Len(condLog) = MaxCode + CodesBelowZero + 1
    /\ Cardinality(FoundKnown) = 24
    /\ {0, 99} \subseteq FoundKnown

-----------------------------------------------------------------------------
(* Properties of location_label                                            *)

LabelCalls == {labelLog[i] : i \in 1..Len(labelLog)}

\* C8: for a record with a name and a country the label is name, then
\* admin1 if and only if the record has a non-empty one, then country, joined
\* by a comma and a space; without admin1 it is exactly "name, country".
C8_LabelFormat ==
    \A c \in LabelCalls :
        ("name" \in DOMAIN c.loc /\ "country" \in DOMAIN c.loc) =>
            /\ c.result.raised = ""
            /\ c.result.value =
                   IF "admin1" \in DOMAIN c.loc /\ Len(c.loc["admin1"]) > 0
                   THEN c.loc["name"] \o ", " \o c.loc["admin1"] \o ", " \o c.loc["country"]
                   ELSE c.loc["name"] \o ", " \o c.loc["country"]

\* a record whose admin1 is the empty string
C8_Witness ==
    \E c \in LabelCalls :
        /\ c.loc = [name |-> "Paris", admin1 |-> "", country |-> "France"]
        /\ c.result.value = "Paris, France"
-----------------------------------------------------------------------------
(* Properties of search_cities                                             *)

NonWhitespace(str) == {i \in 1..Len(str) : str[i] \notin Whitespace}

\* key is str without its leading and trailing whitespace
IsTrimOf(key, str) ==
    /\ key # <<>>
    /\ key[1] \notin Whitespace /\ key[Len(key)] \notin Whitespace
    /\ \E i, j \in 1..Len(str) :
           /\ key = SubSeq(str, i, j)
           /\ NonWhitespace(str) \subseteq i..j

\* C9: a query with fewer than 2 non-whitespace characters is answered with
\* the empty list, without a lookup and without a request; any other query
\* is looked up with geocode, once, by the trimmed query, and a request that
\* is sent is a request for that trimmed query.
C9_ShortQueriesNotLookedUp ==
    \A c \in {searchLast[i] : i \in 1..Len(searchLast)} :
        IF Cardinality(NonWhitespace(c.query)) < 2
        THEN c.lookups = <<>> /\ c.requests = <<>> /\ c.result = <<>>
        ELSE /\ Len(c.lookups) = 1
             /\ IsTrimOf(c.lookups[1], c.query)
             /\ c.requests \in {<<>>, c.lookups}

\* " a " has three characters, two of them whitespace: nothing is looked up,
\* though geocode has cached "aa"
C9_Witness ==
    /\ searchLast # <<>>
    /\ searchLast[1].query = <<" ", "a", " ">>
    /\ searchLast[1].lookups = <<>>
    /\ DOMAIN geoCache = {<<"a", "a">>}

\* C10: a call of search_cities leaves the selected location and the unit as
\* they were, raises nothing, and returns the empty list whenever the request
\* failed or a record could not be labelled.
C10_FailuresAbsorbed ==
    [][searchTick' # searchTick =>
           /\ location' = location /\ tempUnit' = tempUnit
           /\ searchLast'[1].raised = ""
           /\ searchLast'[1].failed # "" => searchLast'[1].result = <<>>]_vars

\* a record without a country is returned when Paris is the selected city
C10_Witness ==
    /\ searchLast # <<>>
    /\ searchLast[1].failed = "KeyError"
    /\ searchLast[1].result = <<>>
    /\ searchLast[1].raised = ""
    /\ location = ParisRecord
    /\ tempUnit = "celsius"
-----------------------------------------------------------------------------
(* Properties of the render pass                                           *)

\* the elements the script writes after the call of fetch_weather
AfterFetchKinds ==
    {"animation", "title", "unit_toggle", "refresh_button", "conditions",
     "stat_card", "forecast_card"}

ErrorsShown == {i \in 1..Len(shown) : shown[i].kind = "error"}

FetchFailed == passFetch # <<>> /\ passFetch[1].failed # ""

\* C11: in a pass whose call of fetch_weather failed, from the failure to the
\* end of the pass, the pass is stopped, one error message is on the page, no
\* element the script writes after the fetch is, and no element shows a
\* forecast; an error message is on the page of no other pass.
C11_FailedFetchHaltsPass ==
    /\ FetchFailed =>
           /\ pc = "stopped"
           /\ Cardinality(ErrorsShown) = 1
           /\ \A i \in 1..Len(shown) :
                  shown[i].kind \notin AfterFetchKinds /\ shown[i].data = <<>>
           /\ passData = <<>>
    /\ ErrorsShown # {} => FetchFailed

\* the fetch fails in a pass that found the forecast of an earlier,
\* successful pass in the cache, expired
C11_Witness ==
    /\ FetchFailed
    /\ passFetch[1].prev = "ok"
    /\ passFetch[1].found = "expired"
    /\ passFetch[1].key \in DOMAIN fetchCache
    /\ pc = "stopped"
    /\ shown = <<Rendered("searchbox", <<>>, ""), Rendered("error", <<>>, "")>>

\* the pass responds to a selection, a press of refresh or a change of unit
UserActions == {"selection", "refresh", "unit"}

\* C12, as stated: a pass sends a request only if it responds to a
\* selection, a press of refresh or a change of unit, or finds its cache
\* entry expired, and then one request; a pass that responds to none of them
\* and finds an unexpired entry sends none. (Opening the page is counted
\* among the user's actions: the first call of all is let pass.)
C12_OnlyOnActionOrExpiry ==
    \A f \in {passFetch[i] : i \in 1..Len(passFetch)} :
        /\ Len(f.requests) <= 1
        /\ f.requests # <<>> =>
               \/ f.cause \cap UserActions # {}
               \/ f.found = "expired"
               \/ f.prev = "none"
        /\ (f.cause = {} /\ f.found = "fresh") => f.requests = <<>>

\* C12, amended: a pass calls fetch_weather at most once and sends at most
\* one request, for its own arguments; it sends one only if it responds to a
\* selection, a press of refresh or a change of unit, or finds its cache
\* entry expired, or finds no entry because no call has succeeded since the
\* cache was last empty: the first call of all, or the call after a failed
\* one, a failure not being cached. A pass that finds an unexpired entry
\* sends none.
C12_RequestOnlyWithoutFreshEntry ==
    /\ Len(passFetch) <= 1
    /\ \A f \in {passFetch[i] : i \in 1..Len(passFetch)} :
           /\ f.requests \in {<<>>, <<f.key>>}
           /\ f.requests # <<>> =>
                  \/ f.cause \cap UserActions # {}
                  \/ f.found = "expired"
                  \/ f.found = "none" /\ f.prev \in {"none", "failed"}
           /\ f.found = "fresh" => f.requests = <<>>

\* a pass that responds to no user action and follows a failed fetch sends
\* the request again, and this time gets the forecast
C12_Witness ==
    /\ passFetch # <<>>
    /\ passFetch[1].cause = {}
    /\ passFetch[1].found = "none"
    /\ passFetch[1].prev = "failed"
    /\ passFetch[1].requests = <<passFetch[1].key>>
    /\ passFetch[1].failed = ""
    /\ passData # <<>>

\* the elements of the page that print temperatures
Temperatures == {i \in 1..Len(shown) : shown[i].symbol # ""}

\* C15: the session's unit is fahrenheit or celsius; every element that
\* prints temperatures shows the forecast this pass fetched, in the unit the
\* pass passed to fetch_weather, followed by F for fahrenheit and C for
\* celsius, and the session's unit is still that unit; a pass ended by
\* st.rerun() (as a change of unit ends it) has printed no temperature.
C15_SymbolMatchesFetchedUnit ==
    /\ tempUnit \in {"fahrenheit", "celsius"}
    /\ \A i \in Temperatures :
           /\ passFetch # <<>>
           /\ passFetch[1].key[2] = tempUnit
           /\ shown[i].data = passData
           /\ passData # <<>>
           /\ passData[1].unit = passFetch[1].key[2]
           /\ shown[i].symbol = (IF passData[1].unit = "fahrenheit" THEN "F" ELSE "C")
    /\ pc = "rerun" => Temperatures = {}

\* the pass after a change of unit to celsius: fetched anew, every
\* temperature of the finished page is a Celsius value followed by C
C15_Witness ==
    /\ pc = "done"
    /\ tempUnit = "celsius"
    /\ passFetch # <<>>
    /\ passFetch[1].cause = {"unit"}
    /\ passFetch[1].requests = <<<<location, "celsius">>>>
    /\ Cardinality(Temperatures) = 6
    /\ \A i \in Temperatures : shown[i].symbol = "C" /\ shown[i].data[1].unit = "celsius"
====
